---- MODULE Spec2Model ----
(***************************************************************************)
(* Model of the Moz API proxy handler (src/api/getMozData.js).             *)
(*                                                                         *)
(* One behaviour is the life of one inbound HTTP request: the handler runs *)
(* synchronously up to its first await (Handle), the upstream calls it     *)
(* issued settle one by one in any order (Settle), and the handler resumes *)
(* at its join point and replies (ReplyBatch, ReplySingle, ReplyOther).    *)
(*                                                                         *)
(* JavaScript values are tagged records: [t |-> "undef"], [t |-> "num",    *)
(* n |-> 5], [t |-> "str", s |-> <<"a", "b">>], [t |-> "list", v |-> ...]. *)
(* Text that the handler inspects (targets, limits) is a tuple of          *)
(* one-character strings; text it only passes on is a TLA+ string, with    *)
(* "undefined" standing for an absent property.                            *)
(***************************************************************************)
EXTENDS Integers, Sequences, FiniteSets, TLC

\* Bounds of the model.
MaxTargets == 2
MaxQueries == 1

Undef == [t |-> "undef"]
Num(n) == [t |-> "num", n |-> n]
Str(s) == [t |-> "str", s |-> s]
List(v) == [t |-> "list", v |-> v]

Min(a, b) == IF a < b THEN a ELSE b
Max(a, b) == IF a > b THEN a ELSE b

\* Sequences over S of length at most n.
SeqsUpTo(S, n) == UNION {[1..k -> S] : k \in 0..n}

(***************************************************************************)
(* parseInt(x, 10)                                                         *)
(***************************************************************************)
DigitChars == <<"0", "1", "2", "3", "4", "5", "6", "7", "8", "9">>
IsDigit(c) == \E i \in 1..10 : DigitChars[i] = c
DigitVal(c) == (CHOOSE i \in 1..10 : DigitChars[i] = c) - 1

RECURSIVE DigitsOf(_)
\* String(n) for a natural number n.
DigitsOf(n) == IF n < 10 THEN <<DigitChars[n + 1]>>
               ELSE DigitsOf(n \div 10) \o <<DigitChars[(n % 10) + 1]>>

\* String(x): the text parseInt works on.
ToChars(x) ==
  CASE x.t = "str" -> x.s
    [] x.t = "num" -> IF x.n < 0 THEN <<"-">> \o DigitsOf(0 - x.n) ELSE DigitsOf(x.n)
    [] OTHER -> <<"u", "n", "d", "e", "f", "i", "n", "e", "d">>

RECURSIVE SkipSpace(_)
SkipSpace(s) == IF s # <<>> /\ Head(s) = " " THEN SkipSpace(Tail(s)) ELSE s

RECURSIVE DigitPrefix(_)
DigitPrefix(s) == IF s # <<>> /\ IsDigit(Head(s))
                  THEN <<Head(s)>> \o DigitPrefix(Tail(s)) ELSE <<>>

RECURSIVE DigitsValue(_)
DigitsValue(d) == IF d = <<>> THEN 0
                  ELSE 10 * DigitsValue(SubSeq(d, 1, Len(d) - 1)) + DigitVal(d[Len(d)])

\* The number the digits d stand for, negated after a minus sign; NaN when
\* there is no digit.
SignedValue(d, neg) ==
  IF d = <<>> THEN [nan |-> TRUE, n |-> 0]
  ELSE [nan |-> FALSE, n |-> IF neg THEN 0 - DigitsValue(d) ELSE DigitsValue(d)]

\* The text s read as an optional sign and the longest run of digits after it.
ParseSigned(s) ==
  SignedValue(DigitPrefix(IF s # <<>> /\ Head(s) \in {"-", "+"} THEN Tail(s) ELSE s),
              s # <<>> /\ Head(s) = "-")

\* parseInt(x, 10): leading blanks, an optional sign, then the longest run of
\* digits; NaN when that run is empty.
ParseInt(x) == ParseSigned(SkipSpace(ToChars(x)))

DefaultLimit == 25
MaxLimit == 50
MaxRankingLimit == 500

\* Math.max(1, Math.min(max, parseInt(params.limit, 10) || 25))
\* p || 25 for the result p of parseInt: NaN and 0 are falsy.
OrDefault(p) == IF p.nan \/ p.n = 0 THEN DefaultLimit ELSE p.n

\* Mutant: the lower bound of the range is not applied.
ClampLimit_NoFloor(x, max) == Min(max, OrDefault(ParseInt(x)))

ClampLimit(x, max) == Max(1, Min(max, OrDefault(ParseInt(x))))

(***************************************************************************)
(* brandAuthority's rewrite of a target                                    *)
(***************************************************************************)
HttpPrefix == <<"h", "t", "t", "p">>
HttpsScheme == <<"h", "t", "t", "p", "s", ":", "/", "/">>

\* String.prototype.startsWith
StartsWith(s, p) == Len(s) >= Len(p) /\ SubSeq(s, 1, Len(p)) = p

\* Mutant: the scheme is prepended to every target.
BrandQuery_AlwaysPrefixed(target) == Str(HttpsScheme \o target.s)

\* if (!brandQuery.startsWith('http')) brandQuery = 'https://' + brandQuery
BrandQuery(target) ==
  IF StartsWith(target.s, HttpPrefix) THEN target ELSE Str(HttpsScheme \o target.s)

(***************************************************************************)
(* callMozApi: what one upstream exchange turns into                       *)
(***************************************************************************)
MozEndpoint == "https://api.moz.com/jsonrpc"

InvalidResponseMsg == "The Moz API returned an invalid response (likely HTML). It may be temporarily busy. Please try again shortly."
ParseFailureNote == "Failed to parse JSON from Moz API. The API might be temporarily unavailable."
\* The messages of the exceptions the runtime raises by itself.
ParserMsg == "Unexpected token < in JSON at position 0"
NullReadMsg == "Cannot read properties of null (reading 'error')"
NetworkMsg == "request to https://api.moz.com/jsonrpc failed"

LogChars == 500

Statuses == {200, 404, 500}
\* response.ok
Ok(status) == status >= 200 /\ status <= 299

RawBodies == {<<"<", "h", "1", ">">>, <<"<", "p", ">">>}
ResultVals == {"r1", "undefined"}
UpstreamMsgs == {"Invalid token"}
\* The error member of an upstream JSON body: absent, an object with or
\* without a message, or a bare string.
ErrorVals == {Undef, [t |-> "scalar"]}
               \cup {[t |-> "obj", message |-> m] : m \in UpstreamMsgs \cup {"undefined"}}

\* What the Moz endpoint can answer to one request: no answer at all (fetch
\* rejects), a body that is not JSON, the JSON value null, or a JSON object.
MozResponses ==
  {[kind |-> "neterr"]}
    \cup {[kind |-> "text", status |-> st, raw |-> r] : st \in Statuses, r \in RawBodies}
    \cup {[kind |-> "null", status |-> st] : st \in Statuses}
    \cup {[kind |-> "json", status |-> st, result |-> v, error |-> e] :
            st \in Statuses, v \in ResultVals, e \in ErrorVals}

Fulfilled(v) == [state |-> "fulfilled", value |-> v]
Rejected(m) == [state |-> "rejected", message |-> m]
Pending == [state |-> "pending"]

\* new Error(m).message: an undefined message gives the empty string.
ErrorMessage(m) == IF m = "undefined" THEN "" ELSE m

StatusMsg(status) == "API returned status " \o ToString(status)

\* data.error ? data.error.message : `API returned status ${response.status}`
UpstreamErrorMsg(resp) ==
  IF resp.error.t = "undef" THEN StatusMsg(resp.status)
  ELSE IF resp.error.t = "obj" THEN ErrorMessage(resp.error.message)
  ELSE ErrorMessage("undefined")

\* Mutant: the catch block rethrows the parser's exception as it is.
SyntaxErrorMsg_Rethrown == ParserMsg

\* The message of the exception the catch block of callMozApi rethrows for a
\* body that is not JSON.
SyntaxErrorMsg == InvalidResponseMsg

\* Mutant: the error thrown for a body that is not JSON carries the body.
CallMozApi_LeaksBody(resp) ==
  CASE resp.kind = "neterr" -> Rejected(NetworkMsg)
    [] resp.kind = "text" -> Rejected(resp.raw)
    [] resp.kind = "null" -> Rejected(NullReadMsg)
    [] OTHER ->
         IF ~Ok(resp.status) \/ resp.error.t # "undef"
         THEN Rejected(UpstreamErrorMsg(resp))
         ELSE Fulfilled(resp.result)

\* The promise callMozApi returns, once the exchange `resp` is over.
CallMozApi(resp) ==
  CASE resp.kind = "neterr" -> Rejected(NetworkMsg)
    [] resp.kind = "text" -> Rejected(SyntaxErrorMsg)
    [] resp.kind = "null" -> Rejected(NullReadMsg)
    [] OTHER ->
         IF ~Ok(resp.status) \/ resp.error.t # "undef"
         THEN Rejected(UpstreamErrorMsg(resp))
         ELSE Fulfilled(resp.result)

Prefix(s, n) == SubSeq(s, 1, Min(Len(s), n))

\* What callMozApi, as call number i, writes with console.error during the
\* exchange: a note, and the first 500 characters of the body it could not parse.
MozLog(i, resp) ==
  IF resp.kind = "text"
  THEN {[by |-> i, note |-> ParseFailureNote],
        [by |-> i, note |-> "API Response Text:", text |-> Prefix(resp.raw, LogChars)]}
  ELSE {}

(***************************************************************************)
(* The request                                                             *)
(***************************************************************************)
ListMethods == {"siteMetrics", "keywordMetrics", "brandAuthority", "searchIntent",
                "rankingKeywords", "relatedKeywords", "keywordCount", "anchorText",
                "recentlyGainedLinks", "recentlyLostLinks", "linkingDomains",
                "finalRedirect", "topPages", "listLinks", "filterLinksByAnchor"}
KeywordMethods == {"keywordMetrics", "searchIntent", "relatedKeywords"}
SingleMethods == {"linkIntersect", "linkStatus"}
OpenAIMethods == {"extractContent", "getEmbeddings", "analyzeWithOpenAI"}
MozMethods == ListMethods \cup SingleMethods \cup {"filterLinksByDomain", "getQuota"}
LimitMethods == {"rankingKeywords", "anchorText", "recentlyGainedLinks",
                 "recentlyLostLinks", "linkingDomains", "topPages", "listLinks",
                 "filterLinksByAnchor", "linkIntersect", "filterLinksByDomain"}

\* The properties of params that the handler only passes on or tests for truth.
PlainFields == {"scope", "locale", "device", "engine", "sort", "filters", "metricType",
                "beginDate", "endDate", "filter", "anchorText",
                "minimum_matching_targets", "is_linking_to", "not_linking_to",
                "targetQuery", "sourceQuery", "targetScope", "sourceScope",
                "url", "text", "analysisData"}
\* The properties it parses or iterates over.
ValueFields == {"targets", "keywords", "targetQueries", "sourceQueries", "limit"}

\* A params object with no property set.
EmptyParams == [f \in PlainFields \cup ValueFields |->
                  IF f \in PlainFields THEN "undefined" ELSE Undef]
Obj(o) == [t |-> "obj", o |-> o]

\* params.f for a property the handler passes on: undefined unless params is
\* an object that has it.
PS(params, f) == IF params.t = "obj" THEN params.o[f] ELSE "undefined"
\* params.f for a property the handler parses or iterates over.
PV(params, f) == IF params.t = "obj" THEN params.o[f] ELSE Undef

\* JavaScript truth of a passed-on string and of params itself.
Truthy(s) == s # "undefined" /\ s # ""
ParamsTruthy(params) == params.t \in {"obj", "scalar"}

(***************************************************************************)
(* The router: from (method, params) to the upstream calls                 *)
(***************************************************************************)
\* Mutant: the key is sent the way the OpenAI endpoints expect theirs.
MozCall_BearerToken(apiMethodName, apiParams, apiKey) ==
  [dest |-> MozEndpoint,
   header |-> [name |-> "x-moz-token", value |-> "Bearer " \o apiKey],
   method |-> apiMethodName,
   params |-> apiParams]

\* The request callMozApi sends: fetch(MOZ_API_ENDPOINT, {headers, body}).
MozCall(apiMethodName, apiParams, apiKey) ==
  [dest |-> MozEndpoint,
   header |-> [name |-> "x-moz-token", value |-> apiKey],
   method |-> apiMethodName,
   params |-> apiParams]

\* metricMap[params.metricType] || metricMap['all']
MetricMethod(metricType) ==
  CASE metricType = "volume" -> "data.keyword.metrics.volume.fetch"
    [] metricType = "difficulty" -> "data.keyword.metrics.difficulty.fetch"
    [] metricType = "opportunity" -> "data.keyword.metrics.opportunity.fetch"
    [] metricType = "priority" -> "data.keyword.metrics.priority.fetch"
    [] OTHER -> "data.keyword.metrics.fetch"

\* x || d for a passed-on string.
OrElse(x, d) == IF Truthy(x) THEN x ELSE d

\* The limit a method computes from params.limit.
LimitFor(method, params) ==
  ClampLimit(PV(params, "limit"), IF method = "rankingKeywords" THEN MaxRankingLimit ELSE MaxLimit)

\* const options = {}; if (params.beginDate) ...; if (params.endDate) ...
DateOptions(params) ==
  [f \in {g \in {"beginDate", "endDate"} : Truthy(PS(params, g))} |-> PS(params, f)]

SortFilterOptions(params) == [sort |-> PS(params, "sort"), filters |-> PS(params, "filters")]

\* const options = { sort }; if (params.filter && params.filter !== 'all') ...
TopPagesOptions(params) ==
  IF Truthy(PS(params, "filter")) /\ PS(params, "filter") # "all"
  THEN [sort |-> PS(params, "sort"), filter |-> PS(params, "filter")]
  ELSE [sort |-> PS(params, "sort")]

\* Mutant: the scope is guessed from the target instead of taken from params.
SiteQuery_ScopePerItem(item, params) ==
  [query |-> item,
   scope |-> IF item.t = "str" /\ StartsWith(item.s, HttpPrefix) THEN "url"
             ELSE PS(params, "scope")]

SiteQuery(item, params) == [query |-> item, scope |-> PS(params, "scope")]
TargetQuery(item, params) ==
  [query |-> item, scope |-> PS(params, "scope"), locale |-> PS(params, "locale")]
SerpQuery(item, params, device, engine) ==
  [keyword |-> item, locale |-> PS(params, "locale"), device |-> device, engine |-> engine]

\* The call one list element gives rise to, for each list-based method
\* (the body of the arrow function passed to map), `limit` being the limit
\* computed before the map.
ListCallWith(method, params, item, apiKey, limit) ==
  CASE method = "siteMetrics" ->
         MozCall("data.site.metrics.fetch",
                 [data |-> [site_query |-> SiteQuery(item, params)]], apiKey)
    [] method = "keywordMetrics" ->
         MozCall(MetricMethod(PS(params, "metricType")),
                 [data |-> [serp_query |->
                    SerpQuery(item, params, OrElse(PS(params, "device"), "desktop"),
                              OrElse(PS(params, "engine"), "google"))]], apiKey)
    [] method = "brandAuthority" ->
         MozCall("data.site.metrics.brand.authority.fetch",
                 [data |-> [site_query |-> [query |-> BrandQuery(item), scope |-> "domain"]]],
                 apiKey)
    [] method = "searchIntent" ->
         MozCall("data.keyword.search.intent.fetch",
                 [data |-> [serp_query |-> SerpQuery(item, params, "desktop", "google")]],
                 apiKey)
    [] method = "rankingKeywords" ->
         MozCall("data.site.ranking.keywords.list",
                 [data |-> [target_query |-> TargetQuery(item, params),
                            page |-> [limit |-> limit]]], apiKey)
    [] method = "relatedKeywords" ->
         MozCall("data.keyword.suggestions.list",
                 [data |-> [serp_query |-> SerpQuery(item, params, "desktop", "google")]],
                 apiKey)
    [] method = "keywordCount" ->
         MozCall("data.site.ranking-keyword.count",
                 [data |-> [target_query |-> TargetQuery(item, params)]], apiKey)
    [] method = "anchorText" ->
         MozCall("data.site.anchor-text.list",
                 [data |-> [site_query |-> SiteQuery(item, params),
                            offset |-> [limit |-> limit]]], apiKey)
    [] method = "recentlyGainedLinks" ->
         MozCall("data.site.linking-domain.filter.recently-gained",
                 [data |-> [site_query |-> SiteQuery(item, params),
                            options |-> DateOptions(params),
                            offset |-> [limit |-> limit]]], apiKey)
    [] method = "recentlyLostLinks" ->
         MozCall("data.site.linking-domain.filter.recently-lost",
                 [data |-> [site_query |-> SiteQuery(item, params),
                            options |-> DateOptions(params),
                            offset |-> [limit |-> limit]]], apiKey)
    [] method = "linkingDomains" ->
         MozCall("data.site.linking-domain.list",
                 [data |-> [site_query |-> SiteQuery(item, params),
                            options |-> SortFilterOptions(params),
                            offset |-> [limit |-> limit]]], apiKey)
    [] method = "finalRedirect" ->
         MozCall("data.site.redirect.fetch",
                 [data |-> [site_query |-> SiteQuery(item, params)]], apiKey)
    [] method = "topPages" ->
         MozCall("data.site.top-page.list",
                 [data |-> [site_query |-> SiteQuery(item, params),
                            options |-> TopPagesOptions(params),
                            offset |-> [limit |-> limit]]], apiKey)
    [] method = "listLinks" ->
         MozCall("data.site.link.list",
                 [data |-> [site_query |-> SiteQuery(item, params),
                            options |-> SortFilterOptions(params),
                            offset |-> [limit |-> limit]]], apiKey)
    [] method = "filterLinksByAnchor" ->
         MozCall("data.site.link.filter.anchor.text",
                 [data |-> [site_query |-> SiteQuery(item, params),
                            anchor_text |-> PS(params, "anchorText"),
                            options |-> SortFilterOptions(params),
                            offset |-> [limit |-> limit]]], apiKey)

ListCall(method, params, item, apiKey) ==
  ListCallWith(method, params, item, apiKey, LimitFor(method, params))

\* The list a list-based method maps over: params.keywords or params.targets.
ListOf(method, params) ==
  IF method \in KeywordMethods THEN PV(params, "keywords") ELSE PV(params, "targets")

\* The arrow function throws on this element: only brandAuthority calls a
\* method of the element (startsWith), which a non-string does not have.
ItemThrows(method, item) == method = "brandAuthority" /\ item.t # "str"

\* How many elements map gets through before the arrow function throws.
MappedCount(method, items) ==
  IF \E i \in 1..Len(items) : ItemThrows(method, items[i])
  THEN (CHOOSE i \in 1..Len(items) :
          /\ ItemThrows(method, items[i])
          /\ \A j \in 1..(i - 1) : ~ItemThrows(method, items[j])) - 1
  ELSE Len(items)

\* The switch statement for a list-based method: the calls issued, in the
\* order they are issued, and whether building them ended in an exception
\* (list.map on something that is not an array, or a throwing arrow function).
MapList(method, params, apiKey, list, n) ==
  IF list.t # "list" THEN [calls |-> <<>>, threw |-> TRUE]
  ELSE [calls |-> [i \in 1..n |-> ListCall(method, params, list.v[i], apiKey)],
        threw |-> n < Len(list.v)]

BuildBatch(method, params, apiKey) ==
  MapList(method, params, apiKey, ListOf(method, params),
          IF ListOf(method, params).t = "list"
          THEN MappedCount(method, ListOf(method, params).v) ELSE 0)

\* The call filterLinksByDomain issues for one (targetQuery, sourceQuery) pair.
DomainCall(params, targetQuery, sourceQuery, apiKey) ==
  MozCall("data.site.link.filter.domain",
          [data |-> [site_query |-> [query |-> targetQuery, scope |-> PS(params, "targetScope")],
                     domain_site_query |-> [query |-> sourceQuery,
                                            scope |-> PS(params, "sourceScope")],
                     options |-> [filters |-> PS(params, "filters")],
                     offset |-> [limit |-> LimitFor("filterLinksByDomain", params)]]],
          apiKey)

\* Mutant: the pairs are taken source query by source query.
BuildDomainBatch_SourceMajor(params, apiKey) ==
  LET tq == PV(params, "targetQueries")
      sq == PV(params, "sourceQueries")
  IN IF tq.t # "list" THEN [calls |-> <<>>, threw |-> TRUE]
     ELSE IF tq.v = <<>> THEN [calls |-> <<>>, threw |-> FALSE]
     ELSE IF sq.t # "list" THEN [calls |-> <<>>, threw |-> TRUE]
     ELSE LET n == Len(tq.v) IN
          [calls |-> [k \in 1..(n * Len(sq.v)) |->
                        DomainCall(params, tq.v[((k - 1) % n) + 1],
                                   sq.v[((k - 1) \div n) + 1], apiKey)],
           threw |-> FALSE]

\* params.targetQueries.flatMap(t => params.sourceQueries.map(s => callMozApi(...)))
BuildDomainBatch(params, apiKey) ==
  LET tq == PV(params, "targetQueries")
      sq == PV(params, "sourceQueries")
  IN IF tq.t # "list" THEN [calls |-> <<>>, threw |-> TRUE]
     ELSE IF tq.v = <<>> THEN [calls |-> <<>>, threw |-> FALSE]
     ELSE IF sq.t # "list" THEN [calls |-> <<>>, threw |-> TRUE]
     ELSE LET m == Len(sq.v) IN
          [calls |-> [k \in 1..(Len(tq.v) * m) |->
                        DomainCall(params, tq.v[((k - 1) \div m) + 1],
                                   sq.v[((k - 1) % m) + 1], apiKey)],
           threw |-> FALSE]

\* The one call of getQuota, linkIntersect and linkStatus.
SingleCall(method, params, apiKey) ==
  CASE method = "getQuota" ->
         MozCall("quota.lookup", [data |-> [path |-> "api.limits.data.rows"]], apiKey)
    [] method = "linkIntersect" ->
         MozCall("data.site.link.intersect.fetch",
                 [data |-> [is_linking_to |-> PS(params, "is_linking_to"),
                            not_linking_to |-> PS(params, "not_linking_to"),
                            options |-> [minimum_matching_targets |->
                                           PS(params, "minimum_matching_targets"),
                                         scope |-> PS(params, "scope"),
                                         sort |-> PS(params, "sort")],
                            offset |-> [limit |-> LimitFor(method, params)]]], apiKey)
    [] method = "linkStatus" ->
         MozCall("data.site.link.status.fetch",
                 [data |-> [target_site_query |-> [query |-> PS(params, "targetQuery"),
                                                   scope |-> PS(params, "targetScope")],
                            source_site_query |-> [query |-> PS(params, "sourceQuery"),
                                                   scope |-> PS(params, "sourceScope")]]],
                 apiKey)

(***************************************************************************)
(* The calls that do not go to Moz                                         *)
(***************************************************************************)
EmbeddingsEndpoint == "https://api.openai.com/v1/embeddings"
ChatEndpoint == "https://api.openai.com/v1/chat/completions"
BrowserAgent == "Mozilla/5.0 (Windows NT 10.0; Win64; x64) AppleWebKit/537.36 (KHTML, like Gecko) Chrome/91.0.4472.124 Safari/537.36"

\* The fetch of extractContent, getEmbeddings and analyzeWithOpenAI.
OtherCall(method, params, openaiApiKey) ==
  CASE method = "extractContent" ->
         [dest |-> PS(params, "url"),
          header |-> [name |-> "User-Agent", value |-> BrowserAgent],
          method |-> "GET", params |-> [none |-> TRUE]]
    [] method = "getEmbeddings" ->
         [dest |-> EmbeddingsEndpoint,
          header |-> [name |-> "Authorization", value |-> "Bearer " \o openaiApiKey],
          method |-> "POST",
          params |-> [model |-> "text-embedding-3-small", input |-> PS(params, "text")]]
    [] method = "analyzeWithOpenAI" ->
         [dest |-> ChatEndpoint,
          header |-> [name |-> "Authorization", value |-> "Bearer " \o openaiApiKey],
          method |-> "POST",
          params |-> [model |-> "gpt-4-turbo-preview", user |-> PS(params, "analysisData")]]

\* The property of params each of these methods requires.
RequiredField(method) ==
  CASE method = "extractContent" -> "url"
    [] method = "getEmbeddings" -> "text"
    [] method = "analyzeWithOpenAI" -> "analysisData"

\* What the other endpoints can answer: nothing (fetch rejects), or a status
\* with a body that is text, or JSON holding an error message and a value.
OtherResponses ==
  {[kind |-> "neterr"]}
    \cup {[kind |-> k, status |-> st, errmsg |-> m, value |-> v] :
            k \in {"text", "json"}, st \in {200, 500},
            m \in {"undefined", "quota exceeded"}, v \in {"v1", "undefined"}}

MissingValueMsg == "Cannot read properties of undefined (reading '0')"

\* throw new Error(`HTTP ${response.status}: ${response.statusText}`)
HttpMsg(status) == "HTTP " \o ToString(status) \o ": " \o
                   (IF status = 500 THEN "Internal Server Error" ELSE "OK")

FallbackMsg(method) ==
  IF method = "getEmbeddings" THEN "Failed to get embeddings" ELSE "Failed to analyze with OpenAI"

\* The outcome of the inner try block of one of these methods: the value it
\* replies with, or the message of the exception its catch block receives.
OtherOutcome(method, resp) ==
  IF resp.kind = "neterr" THEN Rejected(NetworkMsg)
  ELSE IF method = "extractContent"
  THEN IF ~Ok(resp.status) THEN Rejected(HttpMsg(resp.status))
       ELSE Fulfilled(IF resp.value = "undefined" THEN "" ELSE resp.value)
  ELSE IF resp.kind = "text" THEN Rejected(ParserMsg)
  ELSE IF ~Ok(resp.status) THEN Rejected(OrElse(resp.errmsg, FallbackMsg(method)))
  ELSE IF resp.value = "undefined" THEN Rejected(MissingValueMsg)
  ELSE Fulfilled(resp.value)

(***************************************************************************)
(* The replies                                                             *)
(***************************************************************************)
AllowedOrigin == "https://jbmoz-api-tool-ui.vercel.app"
\* Mutant: any origin is allowed.
CorsHeaders_AnyOrigin ==
  [h \in {"Access-Control-Allow-Origin", "Access-Control-Allow-Methods",
          "Access-Control-Allow-Headers"} |->
     CASE h = "Access-Control-Allow-Origin" -> "*"
       [] h = "Access-Control-Allow-Methods" -> "POST, OPTIONS"
       [] OTHER -> "Content-Type"]

CorsHeaders == [h \in {"Access-Control-Allow-Origin", "Access-Control-Allow-Methods",
                       "Access-Control-Allow-Headers"} |->
                  CASE h = "Access-Control-Allow-Origin" -> AllowedOrigin
                    [] h = "Access-Control-Allow-Methods" -> "POST, OPTIONS"
                    [] OTHER -> "Content-Type"]

InternalErrorMsg == "An internal server error occurred."

NoBody == [t |-> "none"]
EmptyBody == [t |-> "empty"]
ErrorBody(msg) == [t |-> "error", error |-> msg]
ArrayBody(records) == [t |-> "array", records |-> records]

Success(v) == [status |-> "success", data |-> v]
Failure(m) == [status |-> "error", reason |-> m]

\* result.status === 'fulfilled' ? {status: 'success', data} : {status: 'error', reason}
Wrap(result) ==
  IF result.state = "fulfilled" THEN Success(result.value) ELSE Failure(result.message)

\* Mutant: the records are collected last promise first.
Aggregate_Reversed(results) ==
  [i \in 1..Len(results) |-> Wrap(results[Len(results) + 1 - i])]

\* Mutant: only the fulfilled promises get a record.
Aggregate_DropRejected(results) ==
  SelectSeq([i \in 1..Len(results) |-> Wrap(results[i])], LAMBDA r : r.status = "success")

\* results.map(...) over what Promise.allSettled returns: one record per
\* promise, in the order of the promises.
Aggregate(results) == [i \in 1..Len(results) |-> Wrap(results[i])]

\* Mutant: linkIntersect and linkStatus reply with the bare record, as getQuota
\* replies with a bare object.
SingleReply_Bare(method, result) ==
  IF result.state = "rejected"
  THEN [status |-> 500, body |-> ErrorBody(InternalErrorMsg)]
  ELSE IF method = "getQuota"
  THEN [status |-> 200, body |-> [t |-> "quota", quota |-> result.value]]
  ELSE [status |-> 200, body |-> [t |-> "object", status |-> "success", data |-> result.value]]

\* What the handler does once the awaited call of getQuota, linkIntersect or
\* linkStatus has settled: reply with the result, or land in the outer catch.
SingleReply(method, result) ==
  IF result.state = "rejected"
  THEN [status |-> 500, body |-> ErrorBody(InternalErrorMsg)]
  ELSE IF method = "getQuota"
  THEN [status |-> 200, body |-> [t |-> "quota", quota |-> result.value]]
  ELSE [status |-> 200, body |-> ArrayBody(<<Success(result.value)>>)]

FailurePrefix(method) ==
  CASE method = "extractContent" -> "Failed to extract content: "
    [] method = "getEmbeddings" -> "Failed to get embeddings: "
    [] OTHER -> "Failed to analyze with OpenAI: "

\* {content: ...}, {embedding: ...}, {analysis: ...}
ReplyKey(method) ==
  CASE method = "extractContent" -> "content"
    [] method = "getEmbeddings" -> "embedding"
    [] OTHER -> "analysis"

\* The reply of extractContent, getEmbeddings and analyzeWithOpenAI.
OtherReply(method, result) ==
  IF result.state = "rejected"
  THEN [status |-> 500, body |-> ErrorBody(FailurePrefix(method) \o result.message)]
  ELSE [status |-> 200, body |-> [t |-> "value", key |-> ReplyKey(method),
                                  value |-> result.value]]

(***************************************************************************)
(* The handler up to its first await                                       *)
(***************************************************************************)
\* The handler replied (status, body) and returned; `issued` are the calls it
\* had started by then.
Replied(status, body, issued) ==
  [pc |-> "done", calls |-> issued, status |-> status, body |-> body]
\* The handler is suspended at an await on the calls `issued`.
Awaiting(at, issued) == [pc |-> at, calls |-> issued, status |-> 0, body |-> NoBody]

\* Mutant: the outer catch block replies with the message of what it caught.
Caught_LeaksMessage(issued) ==
  Replied(500, ErrorBody("Cannot read properties of undefined (reading 'map')"), issued)

\* The outer catch block.
Caught(issued) == Replied(500, ErrorBody(InternalErrorMsg), issued)

\* The handler after its batch is built: in the outer catch if building it
\* threw, at Promise.allSettled otherwise.
AfterBuild(batch) ==
  IF batch.threw THEN Caught(batch.calls) ELSE Awaiting("awaitAll", batch.calls)

\* The try block, for a request that passed the checks before it.
Route(b) ==
  LET method == b.method
      params == b.params
  IN IF method \in OpenAIMethods
     THEN IF ~ParamsTruthy(params) \/ ~Truthy(PS(params, RequiredField(method)))
          THEN Replied(400, ErrorBody(
                 CASE method = "extractContent" -> "Missing URL parameter."
                   [] method = "getEmbeddings" -> "Missing text parameter."
                   [] OTHER -> "Missing analysisData parameter."), <<>>)
          ELSE Awaiting("awaitOther", <<OtherCall(method, params, b.openaiApiKey)>>)
     ELSE IF method \in SingleMethods \cup {"getQuota"}
     THEN Awaiting("awaitOne", <<SingleCall(method, params, b.apiKey)>>)
     ELSE IF method = "filterLinksByDomain"
     THEN AfterBuild(BuildDomainBatch(params, b.apiKey))
     ELSE IF method \in ListMethods
     THEN AfterBuild(BuildBatch(method, params, b.apiKey))
     ELSE Replied(400, ErrorBody("Invalid API method specified."), <<>>)

\* Mutant: the OpenAI key is looked at only after the try block has started
\* its work, so the 400 for a missing key comes with the fetch already issued.
Validate_KeyCheckedLate(b) ==
  IF b.method \notin OpenAIMethods /\ (~Truthy(b.apiKey) \/ ~Truthy(b.method))
  THEN Replied(400, ErrorBody("Missing API Key or method."), <<>>)
  ELSE IF b.method \notin OpenAIMethods /\ b.method # "getQuota" /\ ~ParamsTruthy(b.params)
  THEN Replied(400, ErrorBody("Missing parameters for this method."), <<>>)
  ELSE IF b.method \in {"getEmbeddings", "analyzeWithOpenAI"} /\ ~Truthy(b.openaiApiKey)
  THEN Replied(400, ErrorBody("Missing OpenAI API Key."), Route(b).calls)
  ELSE Route(b)

\* Mutant: params is required of every method, getQuota included (the check
\* of the earlier revisions).
Validate_NoQuotaExemption(b) ==
  IF b.method \notin OpenAIMethods /\ (~Truthy(b.apiKey) \/ ~Truthy(b.method))
  THEN Replied(400, ErrorBody("Missing API Key or method."), <<>>)
  ELSE IF b.method \notin OpenAIMethods /\ ~ParamsTruthy(b.params)
  THEN Replied(400, ErrorBody("Missing parameters for this method."), <<>>)
  ELSE IF b.method \in {"getEmbeddings", "analyzeWithOpenAI"} /\ ~Truthy(b.openaiApiKey)
  THEN Replied(400, ErrorBody("Missing OpenAI API Key."), <<>>)
  ELSE Route(b)

\* The checks on apiKey, method, params and openaiApiKey before the try block.
Validate(b) ==
  IF b.method \notin OpenAIMethods /\ (~Truthy(b.apiKey) \/ ~Truthy(b.method))
  THEN Replied(400, ErrorBody("Missing API Key or method."), <<>>)
  ELSE IF b.method \notin OpenAIMethods /\ b.method # "getQuota" /\ ~ParamsTruthy(b.params)
  THEN Replied(400, ErrorBody("Missing parameters for this method."), <<>>)
  ELSE IF b.method \in {"getEmbeddings", "analyzeWithOpenAI"} /\ ~Truthy(b.openaiApiKey)
  THEN Replied(400, ErrorBody("Missing OpenAI API Key."), <<>>)
  ELSE Route(b)

\* Mutant: the body is destructured before the preflight check.
Run_BodyFirst(r) ==
  IF r.body.t # "obj"
  THEN [pc |-> "crashed", calls |-> <<>>, status |-> 0, body |-> NoBody]
  ELSE IF r.httpMethod = "OPTIONS" THEN Replied(200, EmptyBody, <<>>)
  ELSE Validate(r.body)

\* The handler from its entry to its first await or its return.  Destructuring
\* a missing body throws before the try block: the handler ends without a reply.
Run(r) ==
  IF r.httpMethod = "OPTIONS" THEN Replied(200, EmptyBody, <<>>)
  ELSE IF r.body.t # "obj"
  THEN [pc |-> "crashed", calls |-> <<>>, status |-> 0, body |-> NoBody]
  ELSE Validate(r.body)

(***************************************************************************)
(* The requests of the model                                               *)
(***************************************************************************)
TargetA == Str(<<"a", ".", "c", "o">>)
TargetB == Str(<<"h", "t", "t", "p", ":", "/", "/", "b">>)
\* The list elements of the batches: one bare domain, one URL.
Items == {TargetA, TargetB}
\* The targets brandAuthority is tried on: also a string shorter than 'http',
\* one that has 'http' but not at its start, one that goes on after 'http',
\* the empty string, and a number.
BrandTargets == {TargetA, TargetB, Str(<<"h", "t", "t">>), Str(<<"x", "h", "t", "t", "p">>),
                 Str(<<"h", "t", "t", "p", "x">>), Str(<<>>), Num(5)}
\* The k-th query of a list of queries: "q1", "q2", ...
Query(k) == Str(<<"q">> \o DigitsOf(k))
\* The lists of distinct queries of length at most n.
QueryLists(n) == {[i \in 1..k |-> Query(i)] : k \in 0..n}

LimitInputs ==
  {Undef, Num(0), Num(0 - 5), Num(1), Num(30), Num(50), Num(51), Num(500), Num(501),
   Num(9999),
   Str(<<"a", "b", "c">>), Str(<<>>), Str(<<"-">>), Str(<<"0">>), Str(<<"-", "3">>),
   Str(<<" ", "7">>), Str(<<"1", "2", "a", "b", "c">>), Str(<<"4", "0", ".", "9">>),
   Str(<<"+", "6", "0", "0">>), Str(<<"a", "1">>)}

\* A params object with every passed-on property set.
FullParams ==
  [f \in PlainFields \cup ValueFields |->
     CASE f = "metricType" -> "volume"
       [] f = "device" -> "mobile"
       [] f = "engine" -> "bing"
       [] f = "url" -> "https://example.com/page"
       [] f \in PlainFields -> "the " \o f
       [] OTHER -> Undef]
\* One with the values that the handler treats specially.
AllParams ==
  [FullParams EXCEPT !["filter"] = "all", !["metricType"] = "unknown",
                     !["device"] = "", !["endDate"] = "undefined"]
OptionBundles == {EmptyParams, FullParams, AllParams}

\* `base` with the list of `method` set to `list` and limit set to `limit`.
WithList(base, method, list, limit) ==
  IF method \in KeywordMethods
  THEN [base EXCEPT !["keywords"] = list, !["limit"] = limit]
  ELSE [base EXCEPT !["targets"] = list, !["limit"] = limit]

Body(apiKey, method, params, openaiApiKey) ==
  [t |-> "obj", apiKey |-> apiKey, method |-> method, params |-> params,
   openaiApiKey |-> openaiApiKey]
Post(body) == [httpMethod |-> "POST", body |-> body]

AllMethods == MozMethods \cup OpenAIMethods

\* Well-formed batches: every list-based method on every list of items.
BatchRequests ==
  {Post(Body("key-1", m, Obj(WithList(FullParams, m, List(l), Undef)), "undefined")) :
     m \in ListMethods, l \in SeqsUpTo(Items, MaxTargets)}

\* Every limit on every method that takes one.
LimitRequests ==
  {Post(Body("key-1", m,
             Obj([WithList(FullParams, m, List(<<TargetA>>), x) EXCEPT
                    !["targetQueries"] = List(<<TargetA>>),
                    !["sourceQueries"] = List(<<TargetB>>)]), "undefined")) :
     m \in LimitMethods, x \in LimitInputs}

\* Every method on every bundle of passed-on properties.
OptionRequests ==
  {Post(Body(k, m,
             Obj([WithList(o, m, List(<<TargetB>>), Num(10)) EXCEPT
                    !["targetQueries"] = List(<<TargetA>>),
                    !["sourceQueries"] = List(<<TargetB>>)]), ok)) :
     k \in {"key-1", "key-2"}, m \in AllMethods, o \in OptionBundles,
     ok \in {"sk-1"}}

\* brandAuthority on short lists of its targets, a number among them.
BrandRequests ==
  {Post(Body("key-1", "brandAuthority", Obj(WithList(FullParams, "brandAuthority", List(l), Undef)),
             "undefined")) :
     l \in SeqsUpTo(BrandTargets, 1) \cup {<<TargetA, Num(5)>>, <<Num(5), TargetA>>,
                                           <<TargetA, Num(5), TargetB>>}}

\* filterLinksByDomain on every pair of query lists, missing ones included.
DomainRequests ==
  {Post(Body("key-1", "filterLinksByDomain",
             Obj([FullParams EXCEPT !["targetQueries"] = tq, !["sourceQueries"] = sq]),
             "undefined")) :
     tq \in {Undef} \cup {List(l) : l \in QueryLists(MaxQueries)},
     sq \in {Undef} \cup {List(l) : l \in QueryLists(MaxQueries)}}

\* Every combination of present and absent apiKey, method, params and
\* openaiApiKey; params also as a falsy value, as a truthy non-object and as an
\* object whose list is not a list.
ShapeRequests ==
  {Post(Body(k, m, p, ok)) :
     k \in {"undefined", "", "key-1"},
     m \in AllMethods \cup {"undefined", "", "bogus"},
     p \in {Undef, [t |-> "falsy"], [t |-> "scalar"], Obj(EmptyParams),
            Obj([EmptyParams EXCEPT !["targets"] = Str(<<"a">>),
                                    !["keywords"] = Num(1)])},
     ok \in {"undefined", "sk-1"}}

SomeBodies == {Undef, Body("undefined", "undefined", Undef, "undefined"),
               Body("key-1", "siteMetrics",
                    Obj(WithList(FullParams, "siteMetrics", List(<<TargetA>>), Undef)),
                    "undefined")}
\* Requests without a body, and preflight requests with and without one.
BareRequests ==
  {[httpMethod |-> hm, body |-> b] : hm \in {"OPTIONS", "POST"}, b \in SomeBodies}

\* The requests whose upstream answers are kept: every method once, and
\* siteMetrics and keywordMetrics on lists of one to MaxTraced elements.
MaxTraced == 2
TracedRequests ==
  {Post(Body("key-1", m,
             Obj([WithList(FullParams, m, List(<<TargetA>>), Undef) EXCEPT
                    !["targetQueries"] = List(<<TargetA>>),
                    !["sourceQueries"] = List(<<TargetB>>)]), "sk-1")) :
     m \in AllMethods}
    \cup {Post(Body("key-1", m,
                    Obj(WithList(FullParams, m,
                                 List([i \in 1..k |-> IF i % 2 = 1 THEN TargetA ELSE TargetB]),
                                 Undef)), "undefined")) :
            m \in {"siteMetrics", "keywordMetrics"}, k \in 1..MaxTraced}

\* The methods that do not go to Moz, with everything they need but the
\* OpenAI key.
KeylessRequests ==
  {Post(Body(k, m, Obj(FullParams), "undefined")) :
     k \in {"undefined", "key-1"}, m \in OpenAIMethods}

\* filterLinksByDomain on two target queries and two source queries: the
\* smallest request in which target-major and source-major order differ.
GridRequests ==
  {Post(Body("key-1", "filterLinksByDomain",
             Obj([FullParams EXCEPT !["targetQueries"] = List(<<Query(1), Query(2)>>),
                                    !["sourceQueries"] = List(<<Query(1), Query(2)>>)]),
             "undefined"))}

Requests == BatchRequests \cup LimitRequests \cup OptionRequests \cup BrandRequests
              \cup DomainRequests \cup ShapeRequests \cup BareRequests
              \cup KeylessRequests \cup GridRequests

(***************************************************************************)
(* The state machine                                                       *)
(***************************************************************************)
VARIABLES
  req,        \* the inbound request
  pc,         \* where the handler is: start, awaitOne, awaitAll, awaitOther, done, crashed
  calls,      \* the outbound requests issued so far, in the order of issue
  answers,    \* answers[i]: the upstream response to calls[i], where it is kept
  settled,    \* settled[i]: the state of the promise of calls[i]
  overtaken,  \* some call settled while a call issued before it was still pending
  log,        \* what was written with console.error, each entry with its writer
  res         \* the response object: headers set, status and body sent, times sent
vars == <<req, pc, calls, answers, settled, overtaken, log, res>>

NoAnswer == [kind |-> "none"]

Start(requests) ==
  /\ req \in requests
  /\ pc = "start"
  /\ calls = <<>>
  /\ answers = <<>>
  /\ settled = <<>>
  /\ overtaken = FALSE
  /\ log = {}
  /\ res = [headers |-> <<>>, status |-> 0, body |-> NoBody, count |-> 0]

Init == Start(Requests)
InitTraced == Start(TracedRequests)

\* res.status(s).json(b) or res.status(s).end()
Send(r, status, body) == [r EXCEPT !.status = status, !.body = body, !.count = @ + 1]

\* console.error('Proxy Server Error:', error) in the outer catch block.
CatchLog(status) ==
  IF status = 500 THEN {[by |-> 0, note |-> "Proxy Server Error:"]} ELSE {}

\* The handler runs from its entry to its first await, or to its return.
Handle ==
  /\ pc = "start"
  /\ \E eff \in {Run(req)} :
       /\ pc' = eff.pc
       /\ calls' = eff.calls
       /\ answers' = [i \in 1..Len(eff.calls) |-> NoAnswer]
       /\ settled' = [i \in 1..Len(eff.calls) |-> Pending]
       /\ res' = IF eff.status = 0 THEN [res EXCEPT !.headers = CorsHeaders]
                 ELSE Send([res EXCEPT !.headers = CorsHeaders], eff.status, eff.body)
       /\ log' = log \cup CatchLog(eff.status)
  /\ UNCHANGED <<req, overtaken>>

\* The responses call i can get: those of the endpoint it went to.
ResponsesFor(i) ==
  IF req.body.method \in OpenAIMethods THEN OtherResponses ELSE MozResponses

\* Mutant: a call that fails is issued once more (while the request has
\* issued no more than MaxTargets + 2 calls).
SettleWith_Retry(i, resp) ==
  /\ i \in 1..Len(calls)
  /\ settled[i] = Pending
  /\ \E out \in {IF req.body.method \in OpenAIMethods
                  THEN OtherOutcome(req.body.method, resp) ELSE CallMozApi(resp)} :
       IF out.state = "rejected" /\ Len(calls) < MaxTargets + 2
       THEN /\ calls' = Append(calls, calls[i])
            /\ settled' = Append([settled EXCEPT ![i] = out], Pending)
       ELSE /\ calls' = calls
            /\ settled' = [settled EXCEPT ![i] = out]
  /\ log' = log
  /\ overtaken' = overtaken
  /\ UNCHANGED <<req, pc, res>>

\* Mutant: a call that fails takes its pending siblings down with it.
SettleWith_FailFast(i, resp) ==
  /\ i \in 1..Len(calls)
  /\ settled[i] = Pending
  /\ \E out \in {IF req.body.method \in OpenAIMethods
                  THEN OtherOutcome(req.body.method, resp) ELSE CallMozApi(resp)} :
       settled' = [j \in DOMAIN settled |->
                     IF j = i THEN out
                     ELSE IF out.state = "rejected" /\ settled[j] = Pending
                     THEN Rejected("aborted")
                     ELSE settled[j]]
  /\ log' = log
  /\ overtaken' = overtaken
  /\ UNCHANGED <<req, pc, calls, res>>

\* The exchange of call i ends with the response resp: the promise of the
\* call fulfils or rejects.
SettleWith(i, resp) ==
  /\ i \in 1..Len(calls)
  /\ settled[i] = Pending
  /\ IF req.body.method \in OpenAIMethods
     THEN /\ settled' = [settled EXCEPT ![i] = OtherOutcome(req.body.method, resp)]
          /\ log' = log
     ELSE /\ settled' = [settled EXCEPT ![i] = CallMozApi(resp)]
          /\ log' = log \cup MozLog(i, resp)
  /\ overtaken' = (overtaken \/ \E j \in 1..(i - 1) : settled[j] = Pending)
  /\ UNCHANGED <<req, pc, calls, res>>

Settle(i) ==
  \E resp \in ResponsesFor(i) : SettleWith(i, resp) /\ UNCHANGED answers

\* The same step, with the response kept in answers.
SettleTraced(i) ==
  \E resp \in ResponsesFor(i) :
    SettleWith(i, resp) /\ answers' = [answers EXCEPT ![i] = resp]

\* Promise.allSettled resumes the handler: every promise has settled.
ReplyBatch ==
  /\ pc = "awaitAll"
  /\ \A i \in 1..Len(settled) : settled[i] # Pending
  /\ res' = Send(res, 200, ArrayBody(Aggregate(settled)))
  /\ pc' = "done"
  /\ UNCHANGED <<req, calls, answers, settled, overtaken, log>>

\* The awaited call of getQuota, linkIntersect or linkStatus has settled.
ReplySingle ==
  /\ pc = "awaitOne"
  /\ settled[1] # Pending
  /\ LET r == SingleReply(req.body.method, settled[1])
     IN /\ res' = Send(res, r.status, r.body)
        /\ log' = log \cup CatchLog(r.status)
  /\ pc' = "done"
  /\ UNCHANGED <<req, calls, answers, settled, overtaken>>

\* The fetch of extractContent, getEmbeddings or analyzeWithOpenAI is over.
ReplyOther ==
  /\ pc = "awaitOther"
  /\ settled[1] # Pending
  /\ LET r == OtherReply(req.body.method, settled[1])
     IN res' = Send(res, r.status, r.body)
  /\ pc' = "done"
  /\ log' = IF settled[1].state = "rejected"
            THEN log \cup {[by |-> 0, note |-> FailurePrefix(req.body.method)]}
            ELSE log
  /\ UNCHANGED <<req, calls, answers, settled, overtaken>>

Next ==
  \/ Handle
  \/ \E i \in 1..Len(calls) : Settle(i)
  \/ ReplyBatch
  \/ ReplySingle
  \/ ReplyOther

NextTraced ==
  \/ Handle
  \/ \E i \in 1..Len(calls) : SettleTraced(i)
  \/ ReplyBatch
  \/ ReplySingle
  \/ ReplyOther

\* Every request of the model, the upstream answers not kept.
Spec == Init /\ [][Next]_vars
\* A few requests, each upstream answer kept next to the promise it settles.
SpecTraced == InitTraced /\ [][NextTraced]_vars

(***************************************************************************)
(* Properties                                                              *)
(***************************************************************************)
IsPost == req.httpMethod = "POST" /\ req.body.t = "obj"

\* The list of a list-based request, and the request being well formed: a
\* key, a params object, and a list of strings under targets or keywords.
ReqList == ListOf(req.body.method, req.body.params)
WellFormedList ==
  /\ IsPost
  /\ req.body.method \in ListMethods
  /\ Truthy(req.body.apiKey)
  /\ req.body.params.t = "obj"
  /\ ReqList.t = "list"
  /\ \A i \in 1..Len(ReqList.v) : ReqList.v[i].t = "str"

\* The element of the caller's list that an upstream call carries.
ItemOf(call) ==
  IF "serp_query" \in DOMAIN call.params.data THEN call.params.data.serp_query.keyword
  ELSE IF "target_query" \in DOMAIN call.params.data THEN call.params.data.target_query.query
  ELSE call.params.data.site_query.query

\* The record the envelope must hold for a settled promise, spelled out.
RecordFor(p) ==
  IF p.state = "fulfilled" THEN [status |-> "success", data |-> p.value]
  ELSE [status |-> "error", reason |-> p.message]

\* C1: a well-formed list-based request with N elements is answered 200 with
\* an array of exactly N records; call i was built from element i, and record
\* i is the outcome of call i, in whatever order the calls completed.
C1_EnvelopeMatchesInput ==
  (WellFormedList /\ pc = "done") =>
    /\ res.status = 200
    /\ res.count = 1
    /\ res.body.t = "array"
    /\ Len(calls) = Len(ReqList.v)
    /\ Len(res.body.records) = Len(ReqList.v)
    /\ \A i \in 1..Len(ReqList.v) :
         /\ ItemOf(calls[i]) \in {ReqList.v[i], Str(HttpsScheme \o ReqList.v[i].s)}
         /\ req.body.method # "brandAuthority" => ItemOf(calls[i]) = ReqList.v[i]
         /\ settled[i] # Pending
         /\ res.body.records[i] = RecordFor(settled[i])

\* C1 witness: a batch of two different elements was answered after the
\* second call completed before the first, with different outcomes.
C1_Witness ==
  /\ WellFormedList /\ pc = "done" /\ overtaken
  /\ Len(ReqList.v) = 2 /\ ReqList.v[1] # ReqList.v[2]
  /\ res.body.records[1].status = "error" /\ res.body.records[2].status = "success"

\* C2: in a list-based batch, whichever calls fail, the reply is 200 and
\* position i holds {status:'success', data} exactly when call i fulfilled and
\* {status:'error', reason} exactly when it rejected; no record is lost to a
\* failing sibling.
C2_FailuresIsolated ==
  (WellFormedList /\ pc = "done") =>
    /\ res.status = 200
    /\ res.body.t = "array"
    /\ DOMAIN res.body.records = DOMAIN settled
    /\ {i \in DOMAIN settled : settled[i].state = "rejected"}
         = {i \in DOMAIN res.body.records : res.body.records[i].status = "error"}
    /\ {i \in DOMAIN settled : settled[i].state = "fulfilled"}
         = {i \in DOMAIN res.body.records : res.body.records[i].status = "success"}
    /\ \A i \in DOMAIN settled :
         IF settled[i].state = "rejected"
         THEN res.body.records[i] = [status |-> "error", reason |-> settled[i].message]
         ELSE res.body.records[i] = [status |-> "success", data |-> settled[i].value]

\* C2 witness: one call fulfilled, its sibling failed, and the envelope holds
\* a success record followed by a failure record.
C2_Witness ==
  /\ WellFormedList /\ pc = "done" /\ res.status = 200
  /\ Len(settled) = 2
  /\ settled[1].state = "fulfilled" /\ settled[2].state = "rejected"
  /\ res.body.records = <<[status |-> "success", data |-> "r1"],
                          [status |-> "error", reason |-> "Invalid token"]>>

\* A request for linkIntersect or linkStatus that passed validation.
ValidSingle ==
  /\ IsPost
  /\ req.body.method \in SingleMethods
  /\ Truthy(req.body.apiKey)
  /\ ParamsTruthy(req.body.params)

\* C3 (as claimed): a validated linkIntersect or linkStatus request issues one
\* upstream call and is always answered 200 with a one-element array holding
\* the success record or the failure record of that call.
C3_SingleShotNeverEscalates ==
  (ValidSingle /\ pc = "done") =>
    /\ Len(calls) = 1
    /\ res.status = 200
    /\ res.body = [t |-> "array", records |-> <<RecordFor(settled[1])>>]

\* C4: a POST without a method, or without params for a Moz method other
\* than getQuota, or with a method outside the table, is answered 400 with an
\* {error: string} body; getQuota without params is not rejected: its call is
\* issued and its reply is not a 400.
ValidationMessages == {"Missing API Key or method.", "Missing parameters for this method.",
                       "Invalid API method specified."}
C4_RequestValidation ==
  (IsPost /\ pc # "start") =>
    /\ ( \/ ~Truthy(req.body.method)
         \/ (req.body.method \in MozMethods \ {"getQuota"} /\ ~ParamsTruthy(req.body.params))
         \/ req.body.method \notin AllMethods )
       => /\ pc = "done" /\ calls = <<>> /\ res.count = 1
          /\ res.status = 400
          /\ res.body.t = "error" /\ DOMAIN res.body = {"t", "error"}
          /\ res.body.error \in ValidationMessages
    /\ (req.body.method = "getQuota" /\ Truthy(req.body.apiKey))
       => /\ Len(calls) = 1
          /\ res.status # 400

\* C4 witness: getQuota was sent without params and got its quota, not a 400.
C4_Witness ==
  /\ IsPost /\ req.body.method = "getQuota" /\ req.body.params.t = "undef"
  /\ pc = "done" /\ res.status = 200 /\ res.body.t = "quota"

\* C5 (as claimed): every 200 reply to a Moz-backed method, getQuota
\* included, is an array of outcome records, of one element for a
\* single-call method.
OutcomeRecord(r) ==
  \/ r.status = "success" /\ DOMAIN r = {"status", "data"}
  \/ r.status = "error" /\ DOMAIN r = {"status", "reason"}
IsEnvelope(body) ==
  /\ body.t = "array"
  /\ \A i \in 1..Len(body.records) : OutcomeRecord(body.records[i])
IsMozRequest == IsPost /\ req.body.method \in MozMethods
\* The methods whose calls are joined by Promise.allSettled.
AggregatedMethods == ListMethods \cup {"filterLinksByDomain"}

HasErrorObject(a) == a.error.t # "undef"
SuppliesMessage(a) == a.error.t = "obj" /\ a.error.message # "undefined"
C7_UpstreamErrorReason ==
  IsMozRequest =>
    \A i \in DOMAIN answers :
      answers[i].kind = "json" =>
        IF ~Ok(answers[i].status) \/ HasErrorObject(answers[i])
        THEN /\ settled[i].state = "rejected"
             /\ settled[i].message =
                  IF SuppliesMessage(answers[i]) THEN answers[i].error.message
                  ELSE "API returned status " \o ToString(answers[i].status)
        ELSE settled[i] = [state |-> "fulfilled", value |-> answers[i].result]

\* The limit an upstream call carries: page.limit for rankingKeywords,
\* offset.limit for the others.
LimitOf(call) ==
  IF "page" \in DOMAIN call.params.data THEN call.params.data.page.limit
  ELSE call.params.data.offset.limit

\* A request for a method that takes a limit, otherwise well formed.
LimitRequest ==
  /\ IsPost /\ req.body.method \in LimitMethods
  /\ Truthy(req.body.apiKey) /\ req.body.params.t = "obj"
  /\ \/ WellFormedList
     \/ req.body.method = "linkIntersect"
     \/ /\ req.body.method = "filterLinksByDomain"
        /\ req.body.params.o["targetQueries"].t = "list"
        /\ req.body.params.o["sourceQueries"].t = "list"
LimitInput == req.body.params.o["limit"]

\* A limit that is absent, or a text that does not begin like a number.
NonNumeric(x) ==
  \/ x.t = "undef"
  \/ /\ x.t = "str"
     /\ \/ x.s = <<>>
        \/ Head(x.s) \notin {"0", "1", "2", "3", "4", "5", "6", "7", "8", "9", "+", "-", " "}
        \/ \A k \in 1..Len(x.s) :
             x.s[k] \notin {"0", "1", "2", "3", "4", "5", "6", "7", "8", "9"}

\* C8: whatever params.limit is, every upstream call carries an integer limit
\* within [1,500] for rankingKeywords and [1,50] for the other methods, 25 when
\* the input is absent or not numeric and the maximum when it is above the
\* maximum; the request is not rejected for its limit.
C8_LimitWithinRange ==
  (LimitRequest /\ pc # "start") =>
    /\ res.status # 400
    /\ (pc = "done" /\ req.body.method # "linkIntersect") => res.status = 200
    /\ \A i \in DOMAIN calls :
         /\ LimitOf(calls[i]) \in
              1..(IF req.body.method = "rankingKeywords" THEN 500 ELSE 50)
         /\ NonNumeric(LimitInput) => LimitOf(calls[i]) = 25
         /\ (LimitInput.t = "num" /\ req.body.method = "rankingKeywords"
               /\ LimitInput.n > 500) => LimitOf(calls[i]) = 500
         /\ (LimitInput.t = "num" /\ req.body.method # "rankingKeywords"
               /\ LimitInput.n > 50) => LimitOf(calls[i]) = 50

\* C8 witness: anchorText was asked with limit 9999 and its call carries 50.
C8_Witness ==
  /\ LimitRequest /\ req.body.method = "anchorText" /\ LimitInput = Num(9999)
  /\ Len(calls) = 1 /\ LimitOf(calls[1]) = 50

\* 'http' are the first four characters of s.
HasHttp(s) == Len(s) >= 4 /\ s[1] = "h" /\ s[2] = "t" /\ s[3] = "t" /\ s[4] = "p"

BrandRequest ==
  /\ IsPost /\ req.body.method = "brandAuthority"
  /\ Truthy(req.body.apiKey) /\ req.body.params.t = "obj" /\ ReqList.t = "list"

\* C9: brandAuthority sends a target that does not start with 'http' as
\* 'https://' followed by the target and a target that starts with 'http'
\* unchanged; equal targets are sent equal, and rewriting what was sent
\* changes nothing.
C9_BrandTargetRewrite ==
  BrandRequest =>
    \A i \in DOMAIN calls :
      /\ ReqList.v[i].t = "str"
      /\ ItemOf(calls[i]).t = "str"
      /\ IF HasHttp(ReqList.v[i].s)
         THEN ItemOf(calls[i]).s = ReqList.v[i].s
         ELSE ItemOf(calls[i]).s = <<"h", "t", "t", "p", "s", ":", "/", "/">> \o ReqList.v[i].s
      /\ HasHttp(ItemOf(calls[i]).s)
      /\ BrandQuery(ItemOf(calls[i])) = ItemOf(calls[i])
      /\ \A j \in DOMAIN calls :
           ReqList.v[j] = ReqList.v[i] => ItemOf(calls[j]) = ItemOf(calls[i])

\* C9 witness: a bare domain and a URL were sent in one batch, the first
\* rewritten and the second as it came.
C9_Witness ==
  /\ BrandRequest /\ ReqList.v = <<TargetA, TargetB>> /\ Len(calls) = 2
  /\ ItemOf(calls[1]) = Str(<<"h", "t", "t", "p", "s", ":", "/", "/", "a", ".", "c", "o">>)
  /\ ItemOf(calls[2]) = TargetB

\* C10: an OPTIONS request is answered 200 with an empty body and the three
\* CORS headers, whatever its body holds or lacks; nothing is validated and
\* no upstream call is issued.
C10_Preflight ==
  (req.httpMethod = "OPTIONS" /\ pc # "start") =>
    /\ pc = "done"
    /\ res.count = 1
    /\ res.status = 200
    /\ res.body = [t |-> "empty"]
    /\ DOMAIN res.headers = {"Access-Control-Allow-Origin", "Access-Control-Allow-Methods",
                             "Access-Control-Allow-Headers"}
    /\ res.headers["Access-Control-Allow-Origin"] = "https://jbmoz-api-tool-ui.vercel.app"
    /\ res.headers["Access-Control-Allow-Methods"] = "POST, OPTIONS"
    /\ res.headers["Access-Control-Allow-Headers"] = "Content-Type"
    /\ calls = <<>>
    /\ log = {}

\* C10 witness: a preflight request without any body was answered 200.
C10_Witness ==
  /\ req.httpMethod = "OPTIONS" /\ req.body.t = "undef"
  /\ pc = "done" /\ res.status = 200 /\ res.body = [t |-> "empty"]

\* C11 (as claimed): whenever the handler has sent its response, every
\* upstream call it issued for the request has settled, also when the
\* response is a 500.
C11_JoinBeforeReply ==
  res.count > 0 => \A i \in DOMAIN calls : settled[i] # Pending

\* The number of upstream requests a validated Moz-backed request stands for:
\* one per list element, one per pair of queries, or one.
ListsOk ==
  /\ IsPost /\ Truthy(req.body.apiKey) /\ req.body.params.t = "obj"
  /\ \/ WellFormedList
     \/ req.body.method \in SingleMethods
     \/ /\ req.body.method = "filterLinksByDomain"
        /\ req.body.params.o["targetQueries"].t = "list"
        /\ req.body.params.o["sourceQueries"].t = "list"
CallSpecs ==
  IF req.body.method \in SingleMethods THEN 1
  ELSE IF req.body.method = "filterLinksByDomain"
  THEN Len(req.body.params.o["targetQueries"].v) * Len(req.body.params.o["sourceQueries"].v)
  ELSE Len(ReqList.v)

\* C12: from the moment the handler has issued its calls, the upstream
\* requests of the request are exactly one per CallSpec (N for a list of N
\* elements), whatever each of them ends in; no request is added later and a
\* promise that has settled, rejected or fulfilled, is never pending again.
C12_NoRetries ==
  /\ [](ListsOk /\ pc # "start" => Len(calls) = CallSpecs /\ Len(settled) = CallSpecs)
  /\ [][pc # "start" =>
          /\ calls' = calls
          /\ \A i \in DOMAIN settled : settled[i] # Pending => settled'[i] = settled[i]]_vars

\* C12 witness: a batch of two was answered after both of its calls failed,
\* with two upstream requests issued.
C12_Witness ==
  /\ WellFormedList /\ pc = "done" /\ Len(ReqList.v) = 2 /\ Len(calls) = 2
  /\ settled[1].state = "rejected" /\ settled[2].state = "rejected"

\* A Moz-backed request that passed validation.
ValidatedMoz ==
  /\ IsPost /\ req.body.method \in MozMethods /\ Truthy(req.body.apiKey)
  /\ (req.body.method = "getQuota" \/ ParamsTruthy(req.body.params))

\* Building the batch of the request throws: the list to map over is absent
\* or not an array, or a brandAuthority target is not a string.
BuildFails ==
  \/ /\ req.body.method \in ListMethods
     /\ \/ ReqList.t # "list"
        \/ /\ req.body.method = "brandAuthority"
           /\ \E i \in 1..Len(ReqList.v) : ReqList.v[i].t # "str"
  \/ /\ req.body.method = "filterLinksByDomain"
     /\ \/ PV(req.body.params, "targetQueries").t # "list"
        \/ /\ PV(req.body.params, "targetQueries").v # <<>>
           /\ PV(req.body.params, "sourceQueries").t # "list"

\* C13: a validated Moz-backed request whose batch cannot be built is
\* answered once, with status 500 and exactly the body {error: 'An internal
\* server error occurred.'}; and every 500 reply to a Moz-backed request has
\* that body, never an array and never another message.
C13_InternalErrorIsGeneric ==
  ValidatedMoz =>
    /\ (BuildFails /\ pc # "start") =>
         /\ pc = "done" /\ res.count = 1
         /\ res.status = 500
    /\ res.status = 500 =>
         res.body = [t |-> "error", error |-> "An internal server error occurred."]

\* C13 witness: keywordMetrics with a number for its keywords was answered 500.
C13_Witness ==
  /\ ValidatedMoz /\ req.body.method = "keywordMetrics"
  /\ req.body.params.t = "obj" /\ req.body.params.o["keywords"] = Num(1)
  /\ pc = "done" /\ res.status = 500
  /\ res.body = [t |-> "error", error |-> "An internal server error occurred."]

\* The handler has come to its end: it returned, or an exception left it.
Finished == pc \in {"done", "crashed"}

\* C14 (as claimed): a POST, whatever its body, is never answered twice, and
\* once the handler has come to its end it has answered exactly once, with
\* status 200, 400 or 500; while it waits, its reply is due as soon as the
\* calls it issued have settled.
C14_ExactlyOneResponse ==
  req.httpMethod = "POST" =>
    /\ res.count <= 1
    /\ Finished => (res.count = 1 /\ res.status \in {200, 400, 500})
    /\ (pc \in {"awaitOne", "awaitAll", "awaitOther"}
          /\ \A i \in DOMAIN settled : settled[i] # Pending)
       => ENABLED (ReplyBatch \/ ReplySingle \/ ReplyOther)

\* A request answered through Promise.allSettled.
IsBatch == IsPost /\ req.body.method \in AggregatedMethods

\* C15: when the handler comes to wait on a batch, every call of the batch
\* has been issued and none has completed; from then on no call is issued;
\* one step completes one call and leaves every sibling as it was, so a
\* failing call cancels none; and a pending call can complete whatever its
\* siblings ended in.
C15_IssuedBeforeJoin ==
  /\ [][(IsBatch /\ pc = "start" /\ pc' = "awaitAll") =>
          /\ ListsOk => Len(calls') = CallSpecs
          /\ \A i \in DOMAIN calls' : settled'[i] = Pending]_vars
  /\ [][(IsBatch /\ pc # "start") =>
          /\ calls' = calls
          /\ \A i, j \in DOMAIN settled :
               (settled'[i] # settled[i] /\ j # i) => settled'[j] = settled[j]]_vars
  /\ [](IsBatch => \A i \in DOMAIN settled : settled[i] = Pending => ENABLED Settle(i))

\* C15 witness: in a batch of two the first call failed while the second was
\* pending, and the second then fulfilled.
C15_Witness ==
  /\ IsBatch /\ Len(calls) = 2 /\ ~overtaken
  /\ settled[1].state = "rejected" /\ settled[2].state = "fulfilled"

\* The maximum of the method of the request.
MaxOf == IF req.body.method = "rankingKeywords" THEN 500 ELSE 50

\* C16 (as claimed): the limit sent is 25 only when params.limit is absent or
\* does not parse as an integer; a limit that parses as the integer n, 0 and
\* negative n included, is sent as min(max(n, 1), MAX).
C16_ParseDefaultClamp ==
  LimitRequest =>
    \A i \in DOMAIN calls :
      IF ParseInt(LimitInput).nan
      THEN LimitOf(calls[i]) = 25
      ELSE LimitOf(calls[i]) = Min(Max(ParseInt(LimitInput).n, 1), MaxOf)

\* The promises of the request as they would have settled had every body
\* that was not JSON been the text raw instead, all else equal.
SettledWithRaw(raw) ==
  [i \in DOMAIN settled |->
     IF answers[i].kind = "text" THEN CallMozApi([answers[i] EXCEPT !.raw = raw])
     ELSE settled[i]]

\* C17: the text of an upstream body that is not JSON is written to the log
\* and nowhere else: had the text been any other, every promise would have
\* settled the same and the response to the caller would be the same.
C17_RawBodyOnlyLogged ==
  IsMozRequest =>
    \A raw \in RawBodies :
      /\ \A i \in DOMAIN answers :
           answers[i].kind = "text" =>
             /\ settled[i] = SettledWithRaw(raw)[i]
             /\ [by |-> i, note |-> "API Response Text:", text |-> answers[i].raw] \in log
      /\ (pc = "done" /\ req.body.method \in AggregatedMethods) =>
           res.body = ArrayBody(Aggregate(SettledWithRaw(raw)))
      /\ (pc = "done" /\ req.body.method \notin AggregatedMethods) =>
           [status |-> res.status, body |-> res.body]
             = SingleReply(req.body.method, SettledWithRaw(raw)[1])

\* C17 witness: siteMetrics got '<h1>' for a body; it was logged and the
\* caller got the fixed reason.
C17_Witness ==
  /\ IsMozRequest /\ req.body.method = "siteMetrics" /\ pc = "done" /\ Len(answers) = 1
  /\ answers[1].kind = "text" /\ answers[1].raw = <<"<", "h", "1", ">">>
  /\ [by |-> 1, note |-> "API Response Text:", text |-> <<"<", "h", "1", ">">>] \in log
  /\ res.body.records[1].reason = InvalidResponseMsg

\* A call with its varying element (the target or the keyword) blanked.
SharedPart(call) ==
  IF "serp_query" \in DOMAIN call.params.data
  THEN [call EXCEPT !.params.data.serp_query.keyword = Undef]
  ELSE IF "target_query" \in DOMAIN call.params.data
  THEN [call EXCEPT !.params.data.target_query.query = Undef]
  ELSE [call EXCEPT !.params.data.site_query.query = Undef]

\* C18: the calls of one list-based batch have the same upstream method name
\* and are equal in everything but the target or keyword they carry; once
\* built, no call changes, and the caller's params never change.
C18_CallsShareOptions ==
  /\ []((IsPost /\ req.body.method \in ListMethods) =>
          \A i, j \in DOMAIN calls :
            /\ calls[i].method = calls[j].method
            /\ SharedPart(calls[i]) = SharedPart(calls[j]))
  /\ [][/\ req' = req
        /\ pc # "start" => calls' = calls]_vars

\* C18 witness: keywordMetrics issued two calls that carry different keywords.
C18_Witness ==
  /\ IsPost /\ req.body.method = "keywordMetrics" /\ Len(calls) = 2
  /\ ItemOf(calls[1]) # ItemOf(calls[2])
  /\ calls[1].params.data.serp_query.device = "mobile"

\* The messages of the 400 replies of the handler.
BadRequestMessages ==
  {"Missing API Key or method.", "Missing parameters for this method.",
   "Missing OpenAI API Key.", "Missing URL parameter.", "Missing text parameter.",
   "Missing analysisData parameter.", "Invalid API method specified."}

\* C19: when the handler answers 400, whichever check refused the request, it
\* has issued no upstream request of any kind, and none is issued afterwards.
C19_ValidationBeforeTraffic ==
  res.status = 400 =>
    /\ calls = <<>> /\ settled = <<>>
    /\ pc = "done"
    /\ res.body.t = "error" /\ res.body.error \in BadRequestMessages

\* C19 witness: getEmbeddings with its key but without text was answered 400
\* by the check inside the try block, with nothing sent.
C19_Witness ==
  /\ IsPost /\ req.body.method = "getEmbeddings" /\ Truthy(req.body.openaiApiKey)
  /\ res.status = 400 /\ res.body = [t |-> "error", error |-> "Missing text parameter."]
  /\ calls = <<>>

\* C20: every response the handler sends, whatever its status, carries the
\* three CORS headers with their fixed values; they are set before the handler
\* takes any branch and are not changed afterwards.
C20_CorsOnEveryResponse ==
  pc # "start" =>
    /\ DOMAIN res.headers = {"Access-Control-Allow-Origin", "Access-Control-Allow-Methods",
                             "Access-Control-Allow-Headers"}
    /\ res.headers["Access-Control-Allow-Origin"] = "https://jbmoz-api-tool-ui.vercel.app"
    /\ res.headers["Access-Control-Allow-Methods"] = "POST, OPTIONS"
    /\ res.headers["Access-Control-Allow-Headers"] = "Content-Type"
    /\ res.count > 0 => res.status \in {200, 400, 500}

\* C20 witness: a 500 sent from the outer catch block carries the headers.
C20_Witness ==
  /\ IsPost /\ req.body.method = "siteMetrics" /\ pc = "done" /\ res.status = 500
  /\ [by |-> 0, note |-> "Proxy Server Error:"] \in log
  /\ res.headers["Access-Control-Allow-Origin"] = "https://jbmoz-api-tool-ui.vercel.app"

\* The query lists of a filterLinksByDomain request, both arrays.
TargetQueries == req.body.params.o["targetQueries"]
SourceQueries == req.body.params.o["sourceQueries"]
DomainRequest ==
  /\ IsPost /\ req.body.method = "filterLinksByDomain"
  /\ Truthy(req.body.apiKey) /\ req.body.params.t = "obj"
  /\ TargetQueries.t = "list" /\ SourceQueries.t = "list"

\* C21: filterLinksByDomain issues one call per (targetQuery, sourceQuery)
\* pair, target by target: with m source queries, call number i*m + j (from 0)
\* is the call for targetQueries[i] and sourceQueries[j]; the reply is 200 with
\* one record per call, the record at that index being the outcome of that
\* call, in whatever order the calls completed and whichever failed.
C21_DomainGrid ==
  (DomainRequest /\ pc # "start") =>
    /\ Len(calls) = Len(TargetQueries.v) * Len(SourceQueries.v)
    /\ \A i \in 0..(Len(TargetQueries.v) - 1), j \in 0..(Len(SourceQueries.v) - 1) :
         /\ calls[i * Len(SourceQueries.v) + j + 1].method = "data.site.link.filter.domain"
         /\ calls[i * Len(SourceQueries.v) + j + 1].params.data.site_query.query
              = TargetQueries.v[i + 1]
         /\ calls[i * Len(SourceQueries.v) + j + 1].params.data.domain_site_query.query
              = SourceQueries.v[j + 1]
    /\ pc = "done" =>
         /\ res.status = 200 /\ res.count = 1
         /\ res.body.t = "array"
         /\ Len(res.body.records) = Len(TargetQueries.v) * Len(SourceQueries.v)
         /\ \A k \in DOMAIN calls :
              /\ settled[k] # Pending
              /\ res.body.records[k] = RecordFor(settled[k])

\* C21 witness: two target queries against two source queries were answered
\* with four records, the calls having completed out of order and the one
\* for the first target and the second source query having failed.
C21_Witness ==
  /\ DomainRequest /\ pc = "done" /\ overtaken
  /\ Len(TargetQueries.v) = 2 /\ Len(SourceQueries.v) = 2
  /\ Len(res.body.records) = 4
  /\ res.body.records[1].status = "success" /\ res.body.records[2].status = "error"
  /\ res.body.records[3].status = "success" /\ res.body.records[4].status = "success"

\* The request with other keys in the place of the caller's.
WithKeys(r, apiKey, openaiApiKey) ==
  [r EXCEPT !.body.apiKey = apiKey, !.body.openaiApiKey = openaiApiKey]

\* The texts that would give a key away: the keys and the Authorization value.
KeyTexts ==
  {k \in {req.body.apiKey, req.body.openaiApiKey} : Truthy(k)}
    \cup {"Bearer " \o k : k \in {j \in {req.body.openaiApiKey} : Truthy(j)}}

\* The texts of a response body.
BodyTexts(body) ==
  CASE body.t = "error" -> {body.error}
    [] body.t = "array" ->
         {IF body.records[i].status = "success" THEN body.records[i].data
          ELSE body.records[i].reason : i \in DOMAIN body.records}
    [] body.t = "quota" -> {body.quota}
    [] body.t = "value" -> {body.value}
    [] OTHER -> {}

\* C22: every request to the Moz endpoint carries the caller's apiKey, as it
\* came, in x-moz-token and nothing of the openaiApiKey (the calls are the
\* same whatever that key is); the calls of the other methods are the same
\* whatever the apiKey is, those to the OpenAI endpoints carrying the
\* openaiApiKey as a Bearer token and the fetch of extractContent carrying
\* neither key; and no text of a response body is one of the keys.
C22_CredentialConfinement ==
  (req.httpMethod = "POST" /\ req.body.t = "obj" /\ pc # "start") =>
    /\ \A i \in DOMAIN calls :
         /\ req.body.method \in MozMethods <=> calls[i].dest = "https://api.moz.com/jsonrpc"
         /\ calls[i].dest = "https://api.moz.com/jsonrpc" =>
              calls[i].header = [name |-> "x-moz-token", value |-> req.body.apiKey]
         /\ calls[i].dest \in {"https://api.openai.com/v1/embeddings",
                               "https://api.openai.com/v1/chat/completions"} =>
              /\ req.body.method \in {"getEmbeddings", "analyzeWithOpenAI"}
              /\ calls[i].header = [name |-> "Authorization",
                                    value |-> "Bearer " \o req.body.openaiApiKey]
    /\ req.body.method \in MozMethods =>
         calls = Run(WithKeys(req, req.body.apiKey, "sk-other")).calls
    /\ req.body.method \in OpenAIMethods =>
         calls = Run(WithKeys(req, "key-other", req.body.openaiApiKey)).calls
    /\ req.body.method = "extractContent" =>
         calls = Run(WithKeys(req, "key-other", "sk-other")).calls
    /\ BodyTexts(res.body) \cap KeyTexts = {}

\* C22 witness: getEmbeddings, sent with both keys, issued its request to the
\* OpenAI endpoint with the OpenAI key and was answered.
C22_Witness ==
  /\ req.httpMethod = "POST" /\ req.body.t = "obj" /\ req.body.method = "getEmbeddings"
  /\ req.body.apiKey = "key-2" /\ req.body.openaiApiKey = "sk-1"
  /\ Len(calls) = 1 /\ calls[1].header.value = "Bearer sk-1"
  /\ pc = "done" /\ res.status = 200

====
